---- MODULE Spec2Model ----
(***************************************************************************)
(* A model of superflexpy/framework/node.py: the Node class, which owns a  *)
(* list of Units, combines their outputs with weights, prefixes their      *)
(* parameters and states with its id, and resolves addressed lookups.      *)
(*                                                                         *)
(* Strings that the code splits are sequences of one-character strings;    *)
(* numbers are integers (weights carry their Python type as a tag, since   *)
(* get_output branches on isinstance(w, float)).  The Unit class is not    *)
(* part of node.py: its behaviour is modelled from its capability          *)
(* contract and every choice it makes is an input of the action.           *)
(***************************************************************************)
EXTENDS Integers, Sequences, FiniteSets, TLC

\* Largest number of units in a unit list and of weights in a weight list.
MaxUnits == 2
\* Largest number of fluxes a unit returns and of entries of one mask.
MaxFlux == 2

VARIABLES
    units,      \* the caller's Unit objects, in the order they are passed
    params,     \* the parameter stores: handle -> [val, names]
    nodes,      \* node id -> the Node object (built = FALSE before __init__)
    last        \* the last operation, its inputs and what it gave the caller

vars == <<units, params, nodes, last>>

NodeIds == {"N1", "N2"}
UnitIds == {<<"a">>, <<"b">>}

----------------------------------------------------------------------------
\* Python values

Range(s) == {s[i] : i \in DOMAIN s}

\* The sequences over S of length lo..hi.
SeqsOf(S, lo, hi) == UNION {[1..k -> S] : k \in lo..hi}

\* Weights: a float, an int, or a list whose entries are None or a number.
\* None is <<>> and the number v is <<v>>.
None == <<>>
PyFloat(v) == [kind |-> "float", v |-> v, m |-> <<>>]
PyInt(v) == [kind |-> "int", v |-> v, m |-> <<>>]
PyList(m) == [kind |-> "list", v |-> 0, m |-> m]

\* str.split('_'): the pieces between the separators, empty pieces kept.
RECURSIVE SplitFrom(_, _, _)
SplitFrom(s, i, cur) ==
    IF i > Len(s) THEN <<cur>>
    ELSE IF s[i] = "_" THEN <<cur>> \o SplitFrom(s, i + 1, <<>>)
    ELSE SplitFrom(s, i + 1, Append(cur, s[i]))

Split(s) == SplitFrom(s, 1, <<>>)

\* An exception: its Python type and the parts of its message.
Exc(type, msg) == [type |-> type, msg |-> msg]
NoExc == Exc("", <<>>)

\* The exception an owned Unit raises on its own.
UnitExc(type) == Exc(type, <<"raised by the unit">>)

----------------------------------------------------------------------------
\* The Unit capability contract

\* copy(h): a new Unit object over the same parameter store.
UnitCopy(h) == h

\* deepcopy(h): a new Unit object over a store of its own, at handle p.
UnitDeepCopy(h, p) == [h EXCEPT !.par = p]

\* Unit.add_prefix_parameters(id): every parameter name of the store gains
\* the prefix.
UnitAddPrefixParameters(ps, h, id) ==
    [ps EXCEPT ![h.par].names = <<id>> \o @]

\* Unit.add_prefix_states(id): every state name of the unit gains the prefix.
UnitAddPrefixStates(h, id) == [h EXCEPT !.states = <<id>> \o @]

\* The members getattr finds on a Unit: a data attribute and a method.
UnitMembers == {"id", "reset_states"}
UnitMethods == {"reset_states"}

----------------------------------------------------------------------------
\* Node.__init__

\* The handle of the store that node n's deep copy of unit k owns; the
\* caller's unit k owns handle k.
NodeBase(n) == IF n = "N1" THEN MaxUnits ELSE 2 * MaxUnits
Handles == 1..(3 * MaxUnits)

\* add_prefix_parameters: one call on every unit now in _content.
RECURSIVE AddPrefixParametersFrom(_, _, _)
AddPrefixParametersFrom(st, id, i) ==
    IF i > Len(st.content) THEN st
    ELSE AddPrefixParametersFrom(
            [st EXCEPT !.params = UnitAddPrefixParameters(@, st.content[i], id),
                       !.log = Append(@, <<"add_prefix_parameters", i>>)],
            id, i + 1)

AddPrefixParameters(st, id) == AddPrefixParametersFrom(st, id, 1)

\* AddPrefixStates done only for units the Node owns alone.
AddPrefixStatesIfOwned(st, id) ==
    LET RECURSIVE From(_, _)
        From(t, i) ==
            IF i > Len(t.content) THEN t
            ELSE IF t.content[i].par <= MaxUnits THEN From(t, i + 1)
            ELSE From([t EXCEPT !.content[i] = UnitAddPrefixStates(@, id),
                                !.log = Append(@, <<"add_prefix_states", i>>)],
                      i + 1)
    IN  From(st, 1)

\* add_prefix_states: one call on every unit now in _content.
RECURSIVE AddPrefixStatesFrom(_, _, _)
AddPrefixStatesFrom(st, id, i) ==
    IF i > Len(st.content) THEN st
    ELSE AddPrefixStatesFrom(
            [st EXCEPT !.content[i] = UnitAddPrefixStates(@, id),
                       !.log = Append(@, <<"add_prefix_states", i>>)],
            id, i + 1)

AddPrefixStates(st, id) == AddPrefixStatesFrom(st, id, 1)

\* StoreUnit keeping an alias whatever the flag.
StoreUnitAlias(st, h, k, id, shared_parameters) ==
    [st EXCEPT !.content = Append(@, UnitCopy(h)),
               !.log = Append(@, <<"append", k>>)]

\* One turn of the loop over units: store a copy of h, the k-th unit.
StoreUnit(st, h, k, id, shared_parameters) ==
    IF shared_parameters
    THEN [st EXCEPT !.content = Append(@, UnitCopy(h)),
                    !.log = Append(@, <<"append", k>>)]
    ELSE LET p == NodeBase(id) + k
             s1 == [st EXCEPT !.content = Append(@, UnitDeepCopy(h, p)),
                              !.params[p] = st.params[h.par],
                              !.log = Append(@, <<"append", k>>)]
         IN  AddPrefixParameters(s1, id)

RECURSIVE StoreUnitsFrom(_, _, _, _, _)
StoreUnitsFrom(st, us, k, id, shared_parameters) ==
    IF k > Len(us) THEN st
    ELSE StoreUnitsFrom(StoreUnit(st, us[k], k, id, shared_parameters),
                        us, k + 1, id, shared_parameters)

\* ContentPointer counting from 1.
ContentPointerFromOne(content) ==
    [u \in {content[i].id : i \in DOMAIN content} |->
        CHOOSE i \in 1..Len(content) :
            /\ content[i].id = u
            /\ \A j \in 1..Len(content) : content[j].id = u => j <= i]

\* {hru.id: i for i, hru in enumerate(self._content)}: a later unit with the
\* same id replaces the earlier entry.  Indices count from 0.
ContentPointer(content) ==
    [u \in {content[i].id : i \in DOMAIN content} |->
        CHOOSE i \in 0..(Len(content) - 1) :
            /\ content[i + 1].id = u
            /\ \A j \in 0..(Len(content) - 1) : content[j + 1].id = u => j <= i]

ErrorMessage(id) ==
    <<"module : superflexPy, Node : ", id, ",", " Error message : ">>

\* The whole initializer: the Node object and the parameter stores after it.
NodeInit(us, ws, area, id, shared_parameters, ps) ==
    LET s0 == [content |-> <<>>, params |-> ps, log |-> <<>>]
        s1 == StoreUnitsFrom(s0, us, 1, id, shared_parameters)
        s2 == AddPrefixStates(s1, id)
    IN  [node |-> [built |-> TRUE,
                   id |-> id,
                   error_message |-> ErrorMessage(id),
                   content |-> s2.content,
                   area |-> area,
                   content_pointer |-> ContentPointer(s1.content),
                   weights |-> ws,
                   has_input |-> FALSE,
                   input |-> 0,
                   solved |-> FALSE,
                   shared |-> shared_parameters,
                   given |-> [units |-> us, weights |-> ws],
                   log |-> s2.log],
         params |-> s2.params]

NoNode ==
    [built |-> FALSE, id |-> "", error_message |-> <<>>, content |-> <<>>,
     area |-> 0, content_pointer |-> <<>>, weights |-> <<>>,
     has_input |-> FALSE, input |-> 0, solved |-> FALSE, shared |-> FALSE,
     given |-> [units |-> <<>>, weights |-> <<>>], log |-> <<>>]

----------------------------------------------------------------------------
\* Node.set_input and Node.get_output

NodeSetInput(node, input) == [node EXCEPT !.has_input = TRUE, !.input = input]

\* A call the Node makes on one of its units.
Call(i, method, id, name) ==
    [unit |-> i, method |-> method, id |-> id, name |-> name]

\* What a unit does when called: fail names the call that raises, if any.
NoFail == [stage |-> "none", unit |-> 0]
Fails(fail, stage, i) == fail.stage = stage /\ fail.unit = i

\* for h in self._content: h.set_input(deepcopy(self.input))
RECURSIVE SetInputsFrom(_, _, _, _)
SetInputsFrom(node, fail, i, acc) ==
    IF i > Len(node.content) \/ acc.err # NoExc THEN acc
    ELSE IF ~node.has_input
    THEN [acc EXCEPT !.err = Exc("AttributeError",
                                 <<"'Node' object has no attribute 'input'">>)]
    ELSE LET called == [acc EXCEPT !.calls =
                            Append(@, Call(i, "set_input", <<>>, ""))]
         IN  IF Fails(fail, "set_input", i)
             THEN [called EXCEPT !.err = UnitExc("UnitError")]
             ELSE SetInputsFrom(node, fail, i + 1, called)

\* output[j] += loc_out[j] * w, for j in range(len(output))
RECURSIVE AccumulateFrom(_, _, _, _)
AccumulateFrom(output, loc_out, w, j) ==
    IF j > Len(output) THEN [output |-> output, err |-> NoExc]
    ELSE IF j > Len(loc_out)
    THEN [output |-> output, err |-> Exc("IndexError", <<"list index out of range">>)]
    ELSE IF w.kind = "list"
    THEN [output |-> output, err |-> Exc("TypeError", <<"unsupported operand">>)]
    ELSE AccumulateFrom([output EXCEPT ![j] = @ + loc_out[j] * w.v],
                        loc_out, w, j + 1)

\* The body of the loop of the float branch, for unit i (from 1).
ScalarStep(output, loc_out, w, i) ==
    IF i = 1
    THEN [output |-> [k \in 1..Len(loc_out) |-> loc_out[k] * w.v], err |-> NoExc]
    ELSE AccumulateFrom(output, loc_out, w, 1)

\* The first unit of the mask branch: output.append(0), or
\* output.append(loc_out[out_count] * w[j]); out_count += 1.
RECURSIVE MaskFirstFrom(_, _, _, _, _)
MaskFirstFrom(output, loc_out, m, j, out_count) ==
    IF j > Len(m) THEN [output |-> output, err |-> NoExc]
    ELSE IF m[j] = None
    THEN MaskFirstFrom(Append(output, 0), loc_out, m, j + 1, out_count)
    ELSE IF out_count + 1 > Len(loc_out)
    THEN [output |-> output, err |-> Exc("IndexError", <<"list index out of range">>)]
    ELSE MaskFirstFrom(Append(output, loc_out[out_count + 1] * m[j][1]),
                       loc_out, m, j + 1, out_count + 1)

\* MaskNextFrom reading the unit's output at the position of the mask.
RECURSIVE MaskNextByPosition(_, _, _, _, _)
MaskNextByPosition(output, loc_out, m, j, out_count) ==
    IF j > Len(m) THEN [output |-> output, err |-> NoExc]
    ELSE IF m[j] = None
    THEN MaskNextByPosition(output, loc_out, m, j + 1, out_count)
    ELSE IF j > Len(output) \/ j > Len(loc_out)
    THEN [output |-> output, err |-> Exc("IndexError", <<"list index out of range">>)]
    ELSE MaskNextByPosition([output EXCEPT ![j] = @ + loc_out[j] * m[j][1]],
                            loc_out, m, j + 1, out_count + 1)

\* A later unit of the mask branch: continue, or
\* output[j] += loc_out[out_count] * w[j]; out_count += 1.
RECURSIVE MaskNextFrom(_, _, _, _, _)
MaskNextFrom(output, loc_out, m, j, out_count) ==
    IF j > Len(m) THEN [output |-> output, err |-> NoExc]
    ELSE IF m[j] = None
    THEN MaskNextFrom(output, loc_out, m, j + 1, out_count)
    ELSE IF j > Len(output) \/ out_count + 1 > Len(loc_out)
    THEN [output |-> output, err |-> Exc("IndexError", <<"list index out of range">>)]
    ELSE MaskNextFrom([output EXCEPT ![j] = @ + loc_out[out_count + 1] * m[j][1]],
                      loc_out, m, j + 1, out_count + 1)

\* The body of the loop of the other branch, for unit i (from 1): len(w)
\* raises on a number.
MaskStep(output, loc_out, w, i) ==
    IF w.kind # "list"
    THEN [output |-> output, err |-> Exc("TypeError", <<"object has no len()">>)]
    ELSE IF i = 1
    THEN MaskFirstFrom(<<>>, loc_out, w.m, 1, 0)
    ELSE MaskNextFrom(output, loc_out, w.m, 1, 0)

\* isinstance(self._weights[0], float)
IsFloatBranch(weights) == weights[1].kind = "float"

Min(a, b) == IF a < b THEN a ELSE b

\* for i, (h, w) in enumerate(zip(self._content, self._weights)): solve the
\* unit, then add its weighted output.
RECURSIVE CombineFrom(_, _, _, _, _)
CombineFrom(node, outs, fail, i, acc) ==
    IF i > Min(Len(node.content), Len(node.weights)) \/ acc.err # NoExc THEN acc
    ELSE LET called == [acc EXCEPT !.calls =
                            Append(@, Call(i, "get_output", <<>>, ""))]
         IN  IF Fails(fail, "get_output", i)
             THEN [called EXCEPT !.err = UnitExc("UnitError")]
             ELSE LET r == IF IsFloatBranch(node.weights)
                           THEN ScalarStep(acc.output, outs[i], node.weights[i], i)
                           ELSE MaskStep(acc.output, outs[i], node.weights[i], i)
                  IN  CombineFrom(node, outs, fail, i + 1,
                                  [called EXCEPT !.output = r.output,
                                                 !.err = r.err])

InternalRouting(flux) == flux

\* get_output: what the caller gets (a list or an exception) and the calls
\* made on the units, in order.
NodeGetOutput(node, outs, fail) ==
    LET a0 == [output |-> <<>>, err |-> NoExc, calls |-> <<>>]
        a1 == SetInputsFrom(node, fail, 1, a0)
        a2 == IF a1.err # NoExc THEN a1
              ELSE IF Len(node.weights) = 0
              THEN [a1 EXCEPT !.err = Exc("IndexError", <<"list index out of range">>)]
              ELSE CombineFrom(node, outs, fail, 1, a1)
    IN  IF a2.err # NoExc
        THEN [kind |-> "error", err |-> a2.err, out |-> <<>>, calls |-> a2.calls]
        ELSE [kind |-> "ok", err |-> NoExc, out |-> InternalRouting(a2.output),
              calls |-> a2.calls]

\* Whether a unit was solved: its states are its own and change with it.
UnitsSolved(calls) == \E c \in Range(calls) : c.method = "get_output"

\* external_routing: no routing.
NodeExternalRouting(flux) == flux

----------------------------------------------------------------------------
\* Node.get_internal, Node.call_internal and the copy methods

\* GenericComponent._find_content_from_name: the first segment of the id
\* names the unit, found through _content_pointer; -1 when no unit has it.
FindContentFromName(node, id) ==
    LET first == Split(id)[1]
    IN  IF first \in DOMAIN node.content_pointer
        THEN node.content_pointer[first]
        ELSE -1

\* FindAttributeFromName taking every id of three segments or more for an
\* element.
FindAttributeFromNameAtLeast(node, id) ==
    [hru_num |-> FindContentFromName(node, id),
     ele |-> Len(Split(id)) >= 3]

\* _find_attribute_from_name: the unit's index, and whether an element is
\* looked for.
FindAttributeFromName(node, id) ==
    [hru_num |-> FindContentFromName(node, id),
     ele |-> Len(Split(id)) = 3]

\* A value handed back to the caller.
Value(tag, i, name) == [tag |-> tag, unit |-> i, name |-> name]
NoValue == Value("none", 0, "")

Outcome(kind, err, val, calls) ==
    [kind |-> kind, err |-> err, out |-> <<>>, val |-> val, calls |-> calls]

\* What self._content[hru_num] gives when no unit was found.
UnknownUnit == Outcome("error", Exc("KeyError", <<"no such unit">>), NoValue, <<>>)

\* The message of get_internal's own AttributeError.
GetInternalMessage(node, attribute) ==
    node.error_message \o <<"the attribute ", attribute, " does not exist.">>

\* CallInternalMessage without the name.
CallInternalMessageNoName(node, method, bound) ==
    node.error_message \o <<"the method does not exist.">>

\* The message of call_internal's own AttributeError: method is the name it
\* was given or, once getattr has succeeded, the bound method it now holds.
CallInternalMessage(node, method, bound) ==
    node.error_message
        \o (IF bound THEN <<"the method ", "<bound method ", method, ">", " does not exist.">>
                     ELSE <<"the method ", method, " does not exist.">>)

\* get_internal(id, attribute); raises is what the unit's own get_internal
\* does when the lookup is handed to it.
NodeGetInternal(node, id, attribute, raises) ==
    LET f == FindAttributeFromName(node, id)
        i == f.hru_num + 1
    IN  IF f.hru_num < 0 THEN UnknownUnit
        ELSE IF f.ele
        THEN LET calls == <<Call(i, "get_internal", id, attribute)>>
             IN  IF raises # "none"
                 THEN Outcome("error", UnitExc(raises), NoValue, calls)
                 ELSE Outcome("ok", NoExc, Value("from_unit", i, attribute), calls)
        ELSE IF attribute \in UnitMembers
        THEN Outcome("ok", NoExc,
                     Value(IF attribute \in UnitMethods THEN "method" ELSE "attribute",
                           i, attribute),
                     <<>>)
        ELSE Outcome("error",
                     Exc("AttributeError", GetInternalMessage(node, attribute)),
                     NoValue, <<>>)

\* call_internal(id, method, **kwargs); raises is what the unit's method
\* does when it runs.
NodeCallInternal(node, id, method, raises) ==
    LET f == FindAttributeFromName(node, id)
        i == f.hru_num + 1
    IN  IF f.hru_num < 0 THEN UnknownUnit
        ELSE IF f.ele
        THEN LET calls == <<Call(i, "call_internal", id, method)>>
             IN  IF raises # "none"
                 THEN Outcome("error", UnitExc(raises), NoValue, calls)
                 ELSE Outcome("ok", NoExc, Value("from_unit", i, method), calls)
        ELSE IF method \notin UnitMembers
        THEN Outcome("error",
                     Exc("AttributeError", CallInternalMessage(node, method, FALSE)),
                     NoValue, <<>>)
        ELSE IF method \notin UnitMethods
        THEN Outcome("error", Exc("TypeError", <<"object is not callable">>),
                     NoValue, <<>>)
        ELSE LET calls == <<Call(i, method, <<>>, "")>>
             IN  IF raises = "none"
                 THEN Outcome("ok", NoExc, Value("returned", i, method), calls)
                 ELSE IF raises = "AttributeError"
                 THEN Outcome("error",
                              Exc("AttributeError",
                                  CallInternalMessage(node, method, TRUE)),
                              NoValue, calls)
                 ELSE Outcome("error", UnitExc(raises), NoValue, calls)

\* __copy__ and __deepcopy__
NodeCopy(node) ==
    Outcome("error",
            Exc("AttributeError", node.error_message \o <<"A Node cannot be copied">>),
            NoValue, <<>>)

\* NodeDeepCopy as Python's default deepcopy: a second Node comes back.
NodeDeepCopyDefault(node) == Outcome("ok", NoExc, Value("copy", 0, ""), <<>>)

NodeDeepCopy(node) ==
    Outcome("error",
            Exc("AttributeError", node.error_message \o <<"A Node cannot be copied">>),
            NoValue, <<>>)

\* Unit.set_parameters on the unit a Node holds at index i (from 1).
UnitSetParameter(ps, h, v) == [ps EXCEPT ![h.par].val = v]

----------------------------------------------------------------------------
\* The inputs

\* The caller's units: unit k owns parameter store k and has no prefix yet.
Unit(id, k) == [id |-> id, par |-> k, states |-> <<>>]
UnitLists ==
    {[k \in 1..n |-> Unit(ids[k], k)] :
        ids \in SeqsOf(UnitIds, MaxUnits, MaxUnits), n \in 1..MaxUnits}
DistinctUnits ==
    LET ids == <<<<"a">>, <<"b">>, <<"c">>, <<"d">>>>
    IN  {[k \in 1..n |-> Unit(ids[k], k)] : n \in 1..MaxUnits}

NoParams == [h \in Handles |-> [val |-> 0, names |-> <<>>]]

\* Weight lists for the whole life of a Node: in and out of contract.
SmallWeights ==
    { <<>>,
      <<PyFloat(1)>>,
      <<PyFloat(1), PyFloat(2)>>,
      <<PyInt(1), PyFloat(2)>>,
      <<PyFloat(2), PyInt(1)>>,
      <<PyFloat(1), PyList(<<<<1>>>>)>>,
      <<PyList(<<<<1>>, None>>), PyList(<<None, <<2>>>>)>>,
      <<PyList(<<None>>), PyList(<<<<1>>, <<2>>>>)>>,
      <<PyFloat(2), PyFloat(1), PyFloat(1)>> }
SmallOuts(n) == [1..n -> {<<1, 2>>, <<3>>, <<>>}]

\* Weight lists for the combination: every list of n scalars, and every
\* list of n masks of one length.
Scalars == {PyFloat(1), PyFloat(2), PyInt(1)}
MaskEntries == {None, <<1>>, <<2>>}
RichWeights(n) ==
    [1..n -> Scalars]
        \cup UNION {[1..n -> {PyList(m) : m \in [1..L -> MaskEntries]}] :
                        L \in 0..MaxFlux}
\* What a unit returns: MaxFlux fluxes, rising or falling.
OutSeqs ==
    { [k \in 1..MaxFlux |-> k],
      [k \in 1..MaxFlux |-> MaxFlux + 2 - k] }
RichOuts(n) == [1..n -> OutSeqs]

FailsOf(n) ==
    {NoFail} \cup [stage : {"set_input", "get_output"}, unit : 1..n]

\* The ids looked up: one to four segments, known and unknown units.
Addresses ==
    { <<"a">>, <<"b">>, <<"z">>,
      <<"a", "_", "e">>,
      <<"a", "_", "e", "_", "p">>,
      <<"b", "_", "e", "_", "p">>,
      <<"z", "_", "e", "_", "p">>,
      <<"a", "_", "_">>,
      <<"b", "_", "e", "_", "p", "_", "q">> }
Names == {"id", "reset_states", "nope"}
Raises == {"none", "ValueError", "AttributeError"}
ParamVals == {1, 2}

----------------------------------------------------------------------------
\* The operations

NoLast ==
    [op |-> "none", node |-> "", id |-> <<>>, name |-> "", raises |-> "none",
     outs |-> <<>>, fail |-> NoFail, unit |-> 0, value |-> 0,
     kind |-> "none", err |-> NoExc, out |-> <<>>, val |-> NoValue,
     calls |-> <<>>]

Returned(l, r) ==
    [l EXCEPT !.kind = r.kind, !.err = r.err, !.out = r.out, !.calls = r.calls]
ReturnedValue(l, r) ==
    [l EXCEPT !.kind = r.kind, !.err = r.err, !.val = r.val, !.calls = r.calls]

\* The caller makes one call at a time: the next one starts once the result
\* of the last one has been taken.
Idle == last = NoLast

Return ==
    /\ ~Idle
    /\ last' = NoLast
    /\ UNCHANGED <<units, params, nodes>>

\* n = Node(units, ws, area, n, shared_parameters), for some weights of WS
\* and some flag of SH.
Construct(n, WS, SH) ==
    /\ Idle
    /\ ~nodes[n].built
    /\ \E ws \in WS, sh \in SH :
        LET r == NodeInit(units, ws, 1, n, sh, params)
        IN  /\ nodes' = [nodes EXCEPT ![n] = r.node]
            /\ params' = r.params
    /\ last' = [NoLast EXCEPT !.op = "init", !.node = n, !.kind = "ok"]
    /\ UNCHANGED units

\* n.set_input(input), for some input of INPUTS.
SetInput(n, INPUTS) ==
    /\ Idle
    /\ nodes[n].built
    /\ \E input \in INPUTS :
        /\ nodes' = [nodes EXCEPT ![n] = NodeSetInput(@, input)]
        /\ last' = [NoLast EXCEPT !.op = "set_input", !.node = n, !.kind = "ok",
                                  !.value = input]
    /\ UNCHANGED <<units, params>>

\* n.get_output(), the units returning some outputs of OUTS and one call of
\* FAILS raising.
GetOutput(n, OUTS, FAILS) ==
    /\ Idle
    /\ nodes[n].built
    /\ \E outs \in OUTS, fail \in FAILS :
        LET r == NodeGetOutput(nodes[n], outs, fail)
        IN  /\ last' = Returned([NoLast EXCEPT !.op = "get_output", !.node = n,
                                               !.outs = outs, !.fail = fail], r)
            /\ nodes' = [nodes EXCEPT ![n].solved = @ \/ UnitsSolved(r.calls)]
    /\ UNCHANGED <<units, params>>

\* n.get_internal(id, attribute)
GetInternal(n) ==
    /\ Idle
    /\ nodes[n].built
    /\ \E id \in Addresses, attribute \in Names, raises \in Raises :
        last' = ReturnedValue([NoLast EXCEPT !.op = "get_internal", !.node = n,
                                             !.id = id, !.name = attribute,
                                             !.raises = raises],
                              NodeGetInternal(nodes[n], id, attribute, raises))
    /\ UNCHANGED <<units, params, nodes>>

\* n.call_internal(id, method)
CallInternal(n) ==
    /\ Idle
    /\ nodes[n].built
    /\ \E id \in Addresses, method \in Names, raises \in Raises :
        last' = ReturnedValue([NoLast EXCEPT !.op = "call_internal", !.node = n,
                                             !.id = id, !.name = method,
                                             !.raises = raises],
                              NodeCallInternal(nodes[n], id, method, raises))
    /\ UNCHANGED <<units, params, nodes>>

\* copy(n)
Copy(n) ==
    /\ Idle
    /\ nodes[n].built
    /\ last' = ReturnedValue([NoLast EXCEPT !.op = "copy", !.node = n],
                             NodeCopy(nodes[n]))
    /\ UNCHANGED <<units, params, nodes>>

\* deepcopy(n)
DeepCopy(n) ==
    /\ Idle
    /\ nodes[n].built
    /\ last' = ReturnedValue([NoLast EXCEPT !.op = "deepcopy", !.node = n],
                             NodeDeepCopy(nodes[n]))
    /\ UNCHANGED <<units, params, nodes>>

\* A parameter of a unit of node n is set, through that unit.
SetParameter(n) ==
    /\ Idle
    /\ nodes[n].built
    /\ \E i \in DOMAIN nodes[n].content, v \in ParamVals :
        /\ params' = UnitSetParameter(params, nodes[n].content[i], v)
        /\ last' = [NoLast EXCEPT !.op = "set_parameter", !.node = n,
                                  !.kind = "ok", !.unit = i, !.value = v]
    /\ UNCHANGED <<units, nodes>>

----------------------------------------------------------------------------
\* One Node through its whole life.

Init ==
    /\ units \in UnitLists
    /\ params = NoParams
    /\ nodes = [n \in NodeIds |-> NoNode]
    /\ last = NoLast

Next ==
    \/ Construct("N1", SmallWeights, BOOLEAN)
    \/ SetInput("N1", {1, 2})
    \/ GetOutput("N1", SmallOuts(Len(units)), FailsOf(Len(units)))
    \/ GetInternal("N1")
    \/ CallInternal("N1")
    \/ Copy("N1")
    \/ DeepCopy("N1")
    \/ Return

Spec == Init /\ [][Next]_vars

\* Two Nodes over the same units, and parameters set through them.

InitShare ==
    /\ units \in DistinctUnits
    /\ params = NoParams
    /\ nodes = [n \in NodeIds |-> NoNode]
    /\ last = NoLast

NextShare ==
    \/ \E n \in NodeIds :
            Construct(n, {[k \in 1..Len(units) |-> PyFloat(1)]}, BOOLEAN)
    \/ \E n \in NodeIds : SetParameter(n)
    \/ Return

SpecShare == InitShare /\ [][NextShare]_vars

\* One Node in contract, and every combination of weights and unit outputs.

InitCombine ==
    /\ units \in DistinctUnits
    /\ params = NoParams
    /\ nodes = [n \in NodeIds |-> NoNode]
    /\ last = NoLast

NextCombine ==
    \/ Construct("N1", RichWeights(Len(units)), {TRUE})
    \/ SetInput("N1", {1})
    \/ GetOutput("N1", RichOuts(Len(units)), {NoFail})
    \/ Return

SpecCombine == InitCombine /\ [][NextCombine]_vars

----------------------------------------------------------------------------
\* Properties

SumTo(f, n) ==
    LET RECURSIVE Upto(_)
        Upto(i) == IF i = 0 THEN 0 ELSE f[i] + Upto(i - 1)
    IN  Upto(n)

\* The node the last operation was made on, and its get_output in contract.
LastNode == nodes[last.node]
GotOutput ==
    /\ last.op = "get_output"
    /\ LastNode.has_input
    /\ last.fail = NoFail
    /\ Len(LastNode.weights) = Len(LastNode.content)

NonNull(m) == {k \in DOMAIN m : m[k] # None}
NonNullBefore(m, j) == Cardinality({k \in NonNull(m) : k < j})

\* C1: with weights that are all bare scalars (float or int) and unit
\* outputs of one length, get_output returns a list of that length whose
\* element k is the sum over the units of w_i * o_i[k].
C1_ScalarSum ==
    (/\ GotOutput
     /\ \A i \in DOMAIN LastNode.weights : LastNode.weights[i].kind # "list"
     /\ \A i \in DOMAIN last.outs : Len(last.outs[i]) = Len(last.outs[1]))
    => /\ last.kind = "ok"
       /\ Len(last.out) = Len(last.outs[1])
       /\ \A k \in DOMAIN last.out :
            last.out[k] =
                SumTo([i \in DOMAIN last.outs |->
                        LastNode.weights[i].v * last.outs[i][k]],
                     Len(last.outs))

\* The masks of the last node all have length L and every unit returned at
\* least as many fluxes as its mask has numbers.
MaskContract(L) ==
    /\ GotOutput
    /\ \A i \in DOMAIN LastNode.weights :
        /\ LastNode.weights[i].kind = "list"
        /\ Len(LastNode.weights[i].m) = L
        /\ Cardinality(NonNull(LastNode.weights[i].m)) <= Len(last.outs[i])

\* C2: with masks of one length L, get_output returns a list of length L
\* whose element j is the sum, over the units whose mask has a number at j,
\* of that number times the unit's output r, r the count of numbers before
\* j in the unit's mask; where every mask has None the element is 0, and no
\* error is raised.
C2_MaskSum ==
    \A L \in 0..MaxFlux :
        MaskContract(L)
        => /\ last.kind = "ok"
           /\ Len(last.out) = L
           /\ \A j \in 1..L :
                last.out[j] =
                    SumTo([i \in DOMAIN last.outs |->
                            LET m == LastNode.weights[i].m
                            IN  IF m[j] = None THEN 0
                                ELSE m[j][1] * last.outs[i][NonNullBefore(m, j) + 1]],
                         Len(last.outs))

\* A combination of two units where one position has None in every mask and
\* a unit's number comes after a None of its own mask.
C2_Witness ==
    /\ MaskContract(2)
    /\ last.kind = "ok"
    /\ Len(last.outs) = 2
    /\ \E j \in 1..2 : \A i \in 1..2 : LastNode.weights[i].m[j] = None
    /\ \E i \in 1..2 : LastNode.weights[i].m = <<None, <<2>>>>
    /\ last.out # <<0, 0>>

\* C3: a parameter set through a unit of one Node is seen through the same
\* unit of the other Node when both were built with shared parameters, and
\* is seen neither through the other Node's unit nor through the caller's
\* unit when both were built without.
C3_Sharing ==
    [][(last'.op = "set_parameter")
        => \A m \in NodeIds \ {last'.node} :
            LET n == last'.node
                i == last'.unit
                other == nodes[m].content[i].par
            IN  nodes[m].built
                => /\ (nodes[n].shared /\ nodes[m].shared)
                        => params'[other].val = last'.value
                   /\ (~nodes[n].shared /\ ~nodes[m].shared)
                        => /\ params'[other] = params[other]
                           /\ \A k \in DOMAIN units :
                                params'[units[k].par] = params[units[k].par]]_vars

\* Two sharing Nodes: a value set through N1 shows through N2.
C3_Witness ==
    /\ last.op = "set_parameter"
    /\ last.node = "N1"
    /\ last.value = 2
    /\ nodes["N1"].shared /\ nodes["N2"].built /\ nodes["N2"].shared
    /\ params[nodes["N2"].content[last.unit].par].val = 2

\* The calls of one kind made on unit i while the Node was built.
CallsOn(node, what, i) == {e \in DOMAIN node.log : node.log[e] = <<what, i>>}

\* C4: building a Node without shared parameters calls
\* add_prefix_parameters(id) once on every unit, and building it with
\* shared parameters calls it on none.
C4_PrefixOnce ==
    \A n \in NodeIds :
        nodes[n].built
        => \A i \in DOMAIN nodes[n].content :
            Cardinality(CallsOn(nodes[n], "add_prefix_parameters", i))
                = IF nodes[n].shared THEN 0 ELSE 1

\* C5: building a Node, with or without shared parameters, calls
\* add_prefix_states(id) once on every unit, after every unit is stored,
\* and the state names of every unit then begin with the Node's id.
C5_StatesPrefixed ==
    \A n \in NodeIds :
        nodes[n].built
        => \A i \in DOMAIN nodes[n].content :
            /\ Cardinality(CallsOn(nodes[n], "add_prefix_states", i)) = 1
            /\ \A e \in CallsOn(nodes[n], "add_prefix_states", i) :
                \A k \in DOMAIN nodes[n].content :
                    \A a \in CallsOn(nodes[n], "append", k) : a < e
            /\ nodes[n].content[i].states = <<nodes[n].id>>

\* A Node of two units built with shared parameters.
C5_Witness ==
    /\ nodes["N1"].built
    /\ nodes["N1"].shared
    /\ Len(nodes["N1"].content) = 2
    /\ nodes["N1"].content[2].states = <<"N1">>

\* The last lookup, made on a unit the Node has.
Looked ==
    /\ last.op \in {"get_internal", "call_internal"}
    /\ Split(last.id)[1] \in {LastNode.content[i].id : i \in DOMAIN LastNode.content}
Selected == LastNode.content_pointer[Split(last.id)[1]] + 1
Delegations == {c \in Range(last.calls) : c.method \in {"get_internal", "call_internal"}}

C7_NoCopy ==
    [][(last'.op \in {"copy", "deepcopy"})
        => /\ last'.kind = "error"
           /\ last'.val = NoValue
           /\ nodes' = nodes
           /\ params' = params]_vars

\* A deepcopy refused after set_input and get_output.
C7_Witness ==
    /\ last.op = "deepcopy"
    /\ last.kind = "error"
    /\ LastNode.has_input
    /\ LastNode.solved

\* C8: a name the unit does not have, looked up on the unit itself, fails
\* with an AttributeError whose message holds the Node's id and the name;
\* no unit method runs and nothing comes back.
C8_UnknownMember ==
    (/\ Looked
     /\ Len(Split(last.id)) # 3
     /\ last.name \notin UnitMembers)
    => /\ last.kind = "error"
       /\ last.err.type = "AttributeError"
       /\ LastNode.id \in Range(last.err.msg)
       /\ last.name \in Range(last.err.msg)
       /\ last.calls = <<>>
       /\ last.val = NoValue

\* call_internal of an unknown method on the second unit.
C8_Witness ==
    /\ Looked
    /\ last.op = "call_internal"
    /\ last.id = <<"b">>
    /\ last.name = "nope"
    /\ last.kind = "error"

\* C9: an error raised by a unit reaches the caller as it is: from
\* set_input / get_output it ends get_output with no result, and from a
\* method run through call_internal or a lookup handed to the unit it is
\* not turned into the Node's own unknown-member error.
C9_ErrorsPropagate ==
    /\ (/\ last.op = "get_output"
        /\ \E c \in Range(last.calls) :
                c.unit = last.fail.unit /\ c.method = last.fail.stage)
       => /\ last.kind = "error"
          /\ last.err = UnitExc("UnitError")
          /\ last.out = <<>>
    /\ (/\ last.op \in {"get_internal", "call_internal"}
        /\ last.calls # <<>>
        /\ last.raises # "none")
       => /\ last.kind = "error"
          /\ last.err = UnitExc(last.raises)

\* The invariant of the data model, for one Node.
PointerInvariant(node) ==
    /\ Len(node.content) = Len(node.weights)
    /\ Len(node.content) = Cardinality(DOMAIN node.content_pointer)
    /\ DOMAIN node.content_pointer = {node.content[i].id : i \in DOMAIN node.content}
    /\ {node.content_pointer[u] : u \in DOMAIN node.content_pointer}
            = 0..(Len(node.content) - 1)

\* C10 as claimed: every Node that was built has as many units as weights
\* and pointer entries, the pointer's keys are the units' ids and its values
\* are 0..len(units)-1, after any calls.
C10_Original ==
    \A n \in NodeIds : nodes[n].built => PointerInvariant(nodes[n])

\* C10 as amended: the same of every Node built from units with distinct ids
\* and as many weights as units.
C10_PointerInvariant ==
    \A n \in NodeIds :
        (/\ nodes[n].built
         /\ Len(nodes[n].given.weights) = Len(nodes[n].given.units)
         /\ \A i, j \in DOMAIN nodes[n].given.units :
                nodes[n].given.units[i].id = nodes[n].given.units[j].id => i = j)
        => PointerInvariant(nodes[n])

\* A Node of two units in contract, after set_input and get_output.
C10_Witness ==
    /\ nodes["N1"].built
    /\ Len(nodes["N1"].content) = 2
    /\ nodes["N1"].content[1].id # nodes["N1"].content[2].id
    /\ Len(nodes["N1"].weights) = 2
    /\ nodes["N1"].solved
    /\ last.op = "call_internal"
====
